---- MODULE Spec2Model ----
(***************************************************************************)
(* A model of the SEC Edgar crawler (sec-crawler.py, download.py).         *)
(*                                                                         *)
(*   SpecGate     RateLimiter.__next__ called by concurrent workers, with  *)
(*                a discrete monotonic clock.                              *)
(*   SpecPeriods  generate_filing_periods over validated date ranges.      *)
(*   Spec         the pipeline over the data directory: download_master_   *)
(*                files, extract_and_save_csv, download_filings with its   *)
(*                thread pool, validated_downloaded_filings, and           *)
(*                SEC_downloader._download.                                *)
(*   SpecRun      the same pipeline where the process is not killed, with  *)
(*                fair pool threads.                                       *)
(*   SpecTypes    main()'s resolution of the configured filing type        *)
(*                through SECFileType.from_int and from_string.            *)
(*   SpecFetch    the outbound requests of a run on the clock: the index   *)
(*                requests of download_master_files, then the filing       *)
(*                requests of the pool threads through the RateLimiter.    *)
(*   SpecPool     the pool threads alone passing the RateLimiter, with     *)
(*                fair threads and a clock that goes on.                   *)
(***************************************************************************)
EXTENDS Integers, Sequences, FiniteSets, TLC

VARIABLES
    \* ---- RateLimiter (sec-crawler.py 27-42) and its callers' clock
    now,          \* time.monotonic(), in ticks
    interval,     \* RateLimiter.interval
    next_yield,   \* RateLimiter.next_yield
    lock,         \* RateLimiter.lock: 0 when free, else the holder
    gpc,          \* each worker's position in __next__
    gt,           \* each worker's local t
    gwake,        \* earliest time a sleeping worker's time.sleep may return
    grants,       \* history: the last two t from which next_yield was set
    rets,         \* history: the times of the last two returns of __next__
    \* ---- generate_filing_periods (sec-crawler.py 104-135)
    start_date,
    end_date,
    filing_periods,
    ppc,
    \* ---- the data directory (sec_path), which outlives the process
    srcDir,       \* <yr>_<qr>/source exists
    idxFile,      \* <yr>_<qr>/source/master.idx: absent, partial, complete
    idxLines,     \* the entry lines master.idx holds
    csvExists,    \* <yr>_<qr>/source/master.csv exists
    csvRows,      \* its rows' Downloaded column, in row order
    csvWrites,    \* how many times it has been written
    typeDir,      \* <yr>_<qr>/<filing type> exists
    files,        \* the files in it, by name: absent, partial, complete
    \* ---- the running process
    op,           \* the method of main() that is running, or "idle"
    ftype,        \* the configuration's filing_type, the argument of
                  \* download_filings and validated_downloaded_filings
    k,            \* its loop position: the period, or _download's i
    mpc,          \* its position within the loop body
    tasks,        \* the futures of the current ThreadPoolExecutor
    exc,          \* the exception the last method ended with, or "none"
    \* ---- history
    reqs,         \* requests.get calls issued in the current loop pass
    runFailed,    \* some download dispatched in the current run failed
    afterClean,   \* the run directly follows a run of the same type in
                  \* which no dispatched download failed
    lastClean,    \* the type of that run when it was the last method to end
    valAt,        \* the period at which the last validation stopped (0: none)
    idxFailed,    \* the periods whose latest master.idx request failed
    \* ---- a run's outbound requests on the clock
    rk,           \* download_master_files: the main thread's period
    rpc,          \* and its position in the loop body
    rwake,        \* earliest time its time.sleep may return
    wstage,       \* each pool thread's position in download_sec_file
    nfetch,       \* the work items the pool threads have taken
    starts,       \* history: the times the last two requests were issued
    \* ---- main()'s filing-type resolution (sec-crawler.py 365-372)
    filing_type,      \* the configuration's filing_type string
    filing_type_enum, \* what it resolved to
    tpc

gateVars == <<now, interval, next_yield, lock, gpc, gt, gwake, grants, rets>>
periodVars == <<start_date, end_date, filing_periods, ppc>>
gateButLock == <<now, interval, next_yield, gpc, gt, gwake, grants, rets>>
diskVars == <<srcDir, idxFile, idxLines, csvExists, csvRows, csvWrites,
              typeDir, files>>
procVars == <<op, ftype, k, mpc, tasks, exc>>
runVars == <<reqs, runFailed, afterClean, lastClean, valAt>>
pipeVars == <<diskVars, procVars, runVars, idxFailed>>
fetchVars == <<rk, rpc, rwake, wstage, nfetch, starts>>
typeVars == <<filing_type, filing_type_enum, tpc>>
vars == <<gateVars, periodVars, pipeVars, fetchVars, typeVars>>

(***************************************************************************)
(* Bounds                                                                  *)
(***************************************************************************)
NumWorkers == 2
MaxInterval == 2
MaxTime == 6
NumYears == 2
NumPeriods == 2
NumEntries == 3
MaxFetches == 3
MaxLen == 2

(***************************************************************************)
(* RateLimiter                                                             *)
(***************************************************************************)
Workers == 1..NumWorkers
NoWorker == 0

\* The history h with the time x added, cut to its last two entries.
LastTwo(h, x) == IF h = << >> THEN <<x>> ELSE <<h[Len(h)], x>>

\* self.next_yield = 0 (line 32); the lock starts free (line 30).
InitGate ==
    /\ now = 0
    /\ interval \in 1..MaxInterval
    /\ next_yield = 0
    /\ lock = NoWorker
    /\ gpc = [w \in Workers |-> "idle"]
    /\ gt = [w \in Workers |-> 0]
    /\ gwake = [w \in Workers |-> 0]
    /\ grants = << >>
    /\ rets = << >>

\* The gate at rest, for the specifications that do not run it.
GateIdle ==
    /\ now = 0
    /\ interval = 1
    /\ next_yield = 0
    /\ lock = NoWorker
    /\ gpc = [w \in Workers |-> "idle"]
    /\ gt = [w \in Workers |-> 0]
    /\ gwake = [w \in Workers |-> 0]
    /\ grants = << >>
    /\ rets = << >>

\* The clock advances between any two steps of any thread.
Tick ==
    /\ now < MaxTime
    /\ now' = now + 1
    /\ UNCHANGED <<interval, next_yield, lock, gpc, gt, gwake, grants, rets>>
    /\ UNCHANGED <<periodVars, pipeVars, fetchVars, typeVars>>

\* A worker calls next(self.rate_limiter).
Call(w) ==
    /\ gpc[w] = "idle"
    /\ gpc' = [gpc EXCEPT ![w] = "acquire"]
    /\ UNCHANGED <<now, interval, next_yield, lock, gt, gwake, grants, rets>>
    /\ UNCHANGED <<periodVars, pipeVars, fetchVars, typeVars>>

\* threading.Lock: acquired only when no thread holds it.
LockFree == lock = NoWorker

\* with self.lock: (line 35)
Acquire(w) ==
    /\ gpc[w] = "acquire"
    /\ LockFree
    /\ lock' = w
    /\ gpc' = [gpc EXCEPT ![w] = "read"]
    /\ UNCHANGED <<now, interval, next_yield, gt, gwake, grants, rets>>
    /\ UNCHANGED <<periodVars, pipeVars, fetchVars, typeVars>>

\* t = time.monotonic(); if t < self.next_yield: (lines 36-37)
ReadClock(w) ==
    /\ gpc[w] = "read"
    /\ gt' = [gt EXCEPT ![w] = now]
    /\ gpc' = [gpc EXCEPT ![w] = IF now < next_yield THEN "sleep" ELSE "set"]
    /\ UNCHANGED <<now, interval, next_yield, lock, gwake, grants, rets>>
    /\ UNCHANGED <<periodVars, pipeVars, fetchVars, typeVars>>

\* Variant: a gate that does not wait.
NoSleep(t) == 0

\* the argument of time.sleep (line 38)
SleepFor(t) == next_yield - t

\* time.sleep(self.next_yield - t) starts: it returns no earlier than its
\* argument after the moment it is called (line 38).
Sleep(w) ==
    /\ gpc[w] = "sleep"
    /\ gwake' = [gwake EXCEPT ![w] = now + SleepFor(gt[w])]
    /\ gpc' = [gpc EXCEPT ![w] = "sleeping"]
    /\ UNCHANGED <<now, interval, next_yield, lock, gt, grants, rets>>
    /\ UNCHANGED <<periodVars, pipeVars, fetchVars, typeVars>>

\* time.sleep returns; t = time.monotonic() (lines 38-39)
Wake(w) ==
    /\ gpc[w] = "sleeping"
    /\ now >= gwake[w]
    /\ gt' = [gt EXCEPT ![w] = now]
    /\ gpc' = [gpc EXCEPT ![w] = "set"]
    /\ UNCHANGED <<now, interval, next_yield, lock, gwake, grants, rets>>
    /\ UNCHANGED <<periodVars, pipeVars, fetchVars, typeVars>>

\* self.next_yield = t + self.interval (line 40)
SetNextYield(w) ==
    /\ gpc[w] = "set"
    /\ next_yield' = gt[w] + interval
    /\ grants' = LastTwo(grants, gt[w])
    /\ gpc' = [gpc EXCEPT ![w] = "release"]
    /\ UNCHANGED <<now, interval, lock, gt, gwake, rets>>
    /\ UNCHANGED <<periodVars, pipeVars, fetchVars, typeVars>>

\* Variant: the lock is acquired and never released.
lock_kept(w) == w

\* leaving the with block releases the lock (line 35)
lock_after_with(w) == NoWorker

\* the with block ends and __next__ returns (lines 35, 40); its locals are
\* gone
Release(w) ==
    /\ gpc[w] = "release"
    /\ lock = w
    /\ lock' = lock_after_with(w)
    /\ rets' = LastTwo(rets, now)
    /\ gpc' = [gpc EXCEPT ![w] = "idle"]
    /\ gt' = [gt EXCEPT ![w] = 0]
    /\ gwake' = [gwake EXCEPT ![w] = 0]
    /\ UNCHANGED <<now, interval, next_yield, grants>>
    /\ UNCHANGED <<periodVars, pipeVars, fetchVars, typeVars>>

NextGate ==
    \/ Tick
    \/ \E w \in Workers : Call(w)
    \/ \E w \in Workers : Acquire(w)
    \/ \E w \in Workers : ReadClock(w)
    \/ \E w \in Workers : Sleep(w)
    \/ \E w \in Workers : Wake(w)
    \/ \E w \in Workers : SetNextYield(w)
    \/ \E w \in Workers : Release(w)

(***************************************************************************)
(* generate_filing_periods                                                 *)
(***************************************************************************)
MinYear == 1993
MaxYear == MinYear + NumYears - 1

IsLeap(y) == (y % 4 = 0 /\ y % 100 # 0) \/ y % 400 = 0

DaysIn(y, m) ==
    IF m = 2 THEN (IF IsLeap(y) THEN 29 ELSE 28)
    ELSE IF m \in {4, 6, 9, 11} THEN 30 ELSE 31

\* Dates are <<year, month, day>>; each month is sampled at its first day,
\* its middle and its last day.
Dates ==
    { dt \in (MinYear..MaxYear) \X (1..12) \X (1..31) :
        dt[3] \in {1, 15, DaysIn(dt[1], dt[2])} }

DateLeq(a, b) ==
    \/ a[1] < b[1]
    \/ a[1] = b[1] /\ a[2] < b[2]
    \/ a[1] = b[1] /\ a[2] = b[2] /\ a[3] <= b[3]

\* datetime.now() at the time of the run: the last day of the modelled years.
Today == <<MaxYear, 12, 31>>

\* validate_dates (lines 123-131): the ranges the constructor accepts.
validate_dates(s, e) ==
    /\ DateLeq(<<MinYear, 1, 1>>, s) /\ DateLeq(s, Today)
    /\ DateLeq(s, e) /\ DateLeq(e, Today)

\* Timestamp.quarter
Quarter(dt) == ((dt[2] - 1) \div 3) + 1

\* The QuarterEnd anchor of the quarter holding dt: the first date on the
\* 'Q' frequency that is >= dt.
QuarterEnd(dt) == <<dt[1], 3 * Quarter(dt), DaysIn(dt[1], 3 * Quarter(dt))>>

\* The next date on the 'Q' frequency after the quarter end qe.
NextQuarterEnd(qe) ==
    IF qe[2] = 12 THEN <<qe[1] + 1, 3, 31>>
    ELSE <<qe[1], qe[2] + 3, DaysIn(qe[1], qe[2] + 3)>>

RECURSIVE QuarterEndsUpTo(_, _)
QuarterEndsUpTo(qe, e) ==
    IF DateLeq(qe, e) THEN <<qe>> \o QuarterEndsUpTo(NextQuarterEnd(qe), e)
    ELSE << >>

\* pd.date_range(start, end, freq='Q'): the quarter-end dates within
\* [start, end], in order.
date_range(s, e) == QuarterEndsUpTo(QuarterEnd(s), e)

\* [(d.year, d.quarter) for d in pd.date_range(...)] (line 135)
generate_filing_periods(s, e) ==
    [i \in 1..Len(date_range(s, e)) |->
        <<date_range(s, e)[i][1], Quarter(date_range(s, e)[i])>>]

InitPeriods ==
    /\ start_date \in Dates
    /\ end_date \in Dates
    /\ validate_dates(start_date, end_date)
    /\ filing_periods = << >>
    /\ ppc = "init"

PeriodsIdle ==
    /\ start_date = <<MinYear, 1, 1>>
    /\ end_date = <<MinYear, 1, 1>>
    /\ filing_periods = << >>
    /\ ppc = "init"

\* self.filing_periods = self.generate_filing_periods() (line 113)
Construct ==
    /\ ppc = "init"
    /\ filing_periods' = generate_filing_periods(start_date, end_date)
    /\ ppc' = "done"
    /\ UNCHANGED <<start_date, end_date>>
    /\ UNCHANGED <<gateVars, pipeVars, fetchVars, typeVars>>

(***************************************************************************)
(* SECFileType (lines 45-94) and main()'s resolution of filing_type        *)
(* (lines 365-372). A string is the sequence of its characters.            *)
(***************************************************************************)
DigitChars == <<"0", "1", "2", "3", "4", "5", "6", "7", "8", "9">>
Digits == {DigitChars[i] : i \in 1..Len(DigitChars)}
DigitVal(c) == (CHOOSE i \in 1..Len(DigitChars) : DigitChars[i] = c) - 1

\* The members of the enumeration and their values (lines 46-56).
Members ==
    {"TEN_K", "TEN_Q", "EIGHT_K", "THIRTEEN_F", "SCHEDULE_13D",
     "SCHEDULE_13G", "FORM_3", "FORM_4", "FORM_5", "FORM_S_1", "FORM_144"}

Value(m) ==
    CASE m = "TEN_K"        -> <<"1", "0", "-", "K">>
      [] m = "TEN_Q"        -> <<"1", "0", "-", "Q">>
      [] m = "EIGHT_K"      -> <<"8", "-", "K">>
      [] m = "THIRTEEN_F"   -> <<"1", "3", "F", "-", "H", "R">>
      [] m = "SCHEDULE_13D" -> <<"S", "C", " ", "1", "3", "D">>
      [] m = "SCHEDULE_13G" -> <<"S", "C", " ", "1", "3", "G">>
      [] m = "FORM_3"       -> <<"3">>
      [] m = "FORM_4"       -> <<"4">>
      [] m = "FORM_5"       -> <<"5">>
      [] m = "FORM_S_1"     -> <<"S", "-", "1">>
      [] m = "FORM_144"     -> <<"1", "4", "4">>

\* from_int's mapping, in the order of its keys 1..11 (lines 61-73).
IntMapping ==
    <<"TEN_K", "TEN_Q", "EIGHT_K", "THIRTEEN_F", "SCHEDULE_13D",
      "SCHEDULE_13G", "FORM_3", "FORM_4", "FORM_5", "FORM_S_1", "FORM_144">>

\* mapping.get(value) (line 75): None for a key the mapping lacks.
from_int(n) == IF n \in 1..Len(IntMapping) THEN IntMapping[n] ELSE "None"

\* from_string's mapping has each member under its value (lines 80-94).
from_string(str) ==
    IF \E m \in Members : Value(m) = str
    THEN CHOOSE m \in Members : Value(m) = str
    ELSE "None"

\* str.isdigit(): at least one character, and every character a digit. It
\* holds of the decimal digits and of digit characters such as the
\* superscript two as well.
isdigit(str) ==
    /\ Len(str) > 0
    /\ \A i \in 1..Len(str) : str[i] \in Digits \cup {"^2"}

\* int(str) raises ValueError on a digit character that is no decimal
\* digit.
int_raises(str) == \E i \in 1..Len(str) : str[i] \notin Digits

\* int(str) of a string of decimal digits: its value in base ten, leading
\* zeros allowed.
RECURSIVE int(_)
int(str) ==
    IF str = << >> THEN 0
    ELSE 10 * int(SubSeq(str, 1, Len(str) - 1)) + DigitVal(str[Len(str)])

\* The characters the tried inputs are made of, besides the values of the
\* members and the decimal numerals of the keys.
Chars == {"0", "1", "3", "4", "K", "-", " ", "^2"}

RECURSIVE Strings(_)
Strings(n) ==
    IF n = 0 THEN {<< >>}
    ELSE Strings(n - 1) \cup
         {Append(str, c) : str \in {x \in Strings(n - 1) : Len(x) = n - 1},
                           c \in Chars}

\* The decimal numeral of n, for n below 100.
Numeral(n) ==
    IF n < 10 THEN <<DigitChars[n + 1]>>
    ELSE <<DigitChars[(n \div 10) + 1], DigitChars[(n % 10) + 1]>>

NumericCodes == {Numeral(n) : n \in 1..Len(IntMapping)}
StringCodes == {Value(m) : m \in Members}

\* config.get("SECDataDownloader", "filing_type") (line 365)
Inputs == NumericCodes \cup StringCodes \cup Strings(MaxLen)

InitTypes ==
    /\ filing_type \in Inputs
    /\ filing_type_enum = "None"
    /\ tpc = "read"

\* lines 366-369: an all-digit filing_type goes through from_int, any
\* other through from_string.
resolve ==
    /\ tpc = "read"
    /\ IF isdigit(filing_type)
       THEN IF int_raises(filing_type)
            THEN tpc' = "ValueError" /\ UNCHANGED filing_type_enum
            ELSE /\ filing_type_enum' = from_int(int(filing_type))
                 /\ tpc' = "resolved"
       ELSE /\ filing_type_enum' = from_string(filing_type)
            /\ tpc' = "resolved"
    /\ UNCHANGED filing_type
    /\ UNCHANGED <<gateVars, periodVars, pipeVars, fetchVars>>

\* lines 371-372: None raises ValueError; otherwise main() goes on with
\* the member.
check_none ==
    /\ tpc = "resolved"
    /\ tpc' = IF filing_type_enum = "None" THEN "ValueError" ELSE "ok"
    /\ UNCHANGED <<filing_type, filing_type_enum>>
    /\ UNCHANGED <<gateVars, periodVars, pipeVars, fetchVars>>

NextTypes == resolve \/ check_none

(***************************************************************************)
(* The data directory and the remote archive                               *)
(***************************************************************************)
Periods == 1..NumPeriods
Rows == 1..NumEntries
Types == {"10-K", "10-Q"}

\* The archive's master.idx of a period: NumEntries entry lines. The Form
\* Type of line i:
FormType(p, i) == IF i % 3 = 0 THEN "10-Q" ELSE "10-K"

\* The Filename of line i is edgar/data/<CIK>/<accession>.txt. A filing with
\* two filers is listed once under each CIK: in the even periods lines 1
\* and 2 are one such filing.
Cik(p, i) == i
Accession(p, i) == IF p % 2 = 0 /\ i = 2 THEN 1 ELSE i

\* local_file = path / file.split('/')[-1] (line 296)
local_file(p, i) == Accession(p, i)

\* What requests.get can come to: a status code (503 stands for 429 and the
\* 5xx codes), or an exception ("error": timeout, connection reset).
Responses == {"200", "404", "503", "error"}

FalseRows(n) == [i \in 1..n |-> FALSE]
NoFiles == [a \in Rows |-> "absent"]
ZeroPerPeriod == [p \in Periods |-> 0]

\* A fresh machine: create_data_path has made an empty data directory. The
\* configuration names one filing type, and keeps it from run to run.
InitPipe ==
    /\ srcDir = [p \in Periods |-> FALSE]
    /\ idxFile = [p \in Periods |-> "absent"]
    /\ idxLines = ZeroPerPeriod
    /\ csvExists = [p \in Periods |-> FALSE]
    /\ csvRows = [p \in Periods |-> << >>]
    /\ csvWrites = ZeroPerPeriod
    /\ typeDir = [p \in Periods |-> [t \in Types |-> FALSE]]
    /\ files = [p \in Periods |-> [t \in Types |-> NoFiles]]
    /\ op = "idle"
    /\ ftype \in Types
    /\ k = 1
    /\ mpc = "top"
    /\ tasks = << >>
    /\ exc = "none"
    /\ reqs = 0
    /\ runFailed = FALSE
    /\ afterClean = FALSE
    /\ lastClean = "none"
    /\ valAt = 0
    /\ idxFailed = {}

\* The process has ended: nothing of it is left.
ProcessEnds ==
    /\ op' = "idle"
    /\ k' = 1
    /\ mpc' = "top"
    /\ tasks' = << >>
    /\ reqs' = 0
    /\ runFailed' = FALSE
    /\ afterClean' = FALSE

\* The methods main() calls, and download.py's _download. (main() does not
\* call process_master_files, whose glob '*/*/source' matches no directory
\* of this layout.)
Methods == {"download_master_files", "extract_and_save_csv",
            "download_filings", "validated_downloaded_filings", "_download"}

\* main() (lines 375-385) calls a method; which ones run is the
\* configuration's choice, and the program is run again and again.
StartOp ==
    /\ op = "idle"
    /\ \E m \in Methods :
        /\ op' = m
        /\ k' = IF m = "_download" THEN 0 ELSE 1
        /\ afterClean' = (m = "download_filings" /\ lastClean = ftype)
    /\ mpc' = "top"
    /\ exc' = "none"
    /\ valAt' = 0
    /\ lastClean' = "none"
    /\ UNCHANGED <<ftype, tasks, reqs, runFailed>>
    /\ UNCHANGED <<diskVars, gateVars, periodVars, fetchVars, typeVars>>
    /\ UNCHANGED idxFailed

\* The method's loop is exhausted: it returns.
Return ==
    /\ op \in Methods
    /\ mpc = "top"
    /\ k = (IF op = "_download" THEN 2 ELSE NumPeriods + 1)
    /\ lastClean' = IF op = "download_filings" /\ ~runFailed THEN ftype ELSE "none"
    /\ ProcessEnds
    /\ UNCHANGED <<ftype, exc, valAt>>
    /\ UNCHANGED <<diskVars, gateVars, periodVars, fetchVars, typeVars>>
    /\ UNCHANGED idxFailed

\* An exception leaves the method and main(): the process ends.
Raise(e) ==
    /\ exc' = e
    /\ lastClean' = IF op = "download_filings" /\ ~runFailed THEN ftype ELSE "none"
    /\ ProcessEnds
    /\ UNCHANGED ftype

\* The process is killed (or the machine stops) between any two steps; the
\* data directory stays as it is.
Crash ==
    /\ op \in Methods
    /\ ProcessEnds
    /\ lock' = NoWorker
    /\ exc' = "killed"
    /\ lastClean' = "none"
    /\ UNCHANGED <<ftype, valAt, idxFailed>>
    /\ UNCHANGED <<diskVars, gateButLock, periodVars, fetchVars, typeVars>>

(***************************************************************************)
(* download_master_files (lines 150-183)                                   *)
(***************************************************************************)
\* Variant: the check for an existing master.idx is missing.
master_idx_never_found(p) == FALSE

\* master_idx_file.exists() (line 161)
master_idx_exists(p) == idxFile[p] # "absent"

\* lines 156-163: make the source directory, or skip the period when its
\* master.idx is there.
master_top ==
    /\ op = "download_master_files" /\ mpc = "top" /\ k <= NumPeriods
    /\ IF ~srcDir[k]
       THEN /\ srcDir' = [srcDir EXCEPT ![k] = TRUE]
            /\ mpc' = "request"
            /\ k' = k
       ELSE /\ srcDir' = srcDir
            /\ IF master_idx_exists(k)
               THEN mpc' = "top" /\ k' = k + 1
               ELSE mpc' = "request" /\ k' = k
    /\ UNCHANGED <<idxFile, idxLines, csvExists, csvRows, csvWrites, typeDir, files>>
    /\ UNCHANGED <<op, ftype, tasks, exc, runVars>>
    /\ UNCHANGED <<gateVars, periodVars, fetchVars, typeVars>>
    /\ UNCHANGED idxFailed

\* lines 171-175: requests.get is issued.
master_request ==
    /\ op = "download_master_files" /\ mpc = "request"
    /\ reqs' = reqs + 1
    /\ mpc' = "inflight"
    /\ UNCHANGED <<op, ftype, k, tasks, exc, diskVars>>
    /\ UNCHANGED <<runFailed, afterClean, lastClean, valAt>>
    /\ UNCHANGED <<gateVars, periodVars, fetchVars, typeVars>>
    /\ UNCHANGED idxFailed

\* A master.idx that is being written holds some of its first entry lines,
\* not all.
PartialLines == 0..(NumEntries - 1)

\* lines 173-183: on 200 local_file.open('wb') creates the file and the
\* write begins. Any other status is logged, an exception too, and the
\* loop goes on.
master_response ==
    /\ op = "download_master_files" /\ mpc = "inflight"
    /\ \E resp \in Responses :
        IF resp = "200"
        THEN /\ idxFile' = [idxFile EXCEPT ![k] = "partial"]
             /\ \E n \in PartialLines : idxLines' = [idxLines EXCEPT ![k] = n]
             /\ mpc' = "write"
             /\ idxFailed' = idxFailed \ {k}
             /\ UNCHANGED <<k, reqs>>
        ELSE /\ mpc' = "top"
             /\ k' = k + 1
             /\ reqs' = 0
             /\ idxFailed' = idxFailed \cup {k}
             /\ UNCHANGED <<idxFile, idxLines>>
    /\ UNCHANGED <<srcDir, csvExists, csvRows, csvWrites, typeDir, files>>
    /\ UNCHANGED <<op, ftype, tasks, exc>>
    /\ UNCHANGED <<runFailed, afterClean, lastClean, valAt>>
    /\ UNCHANGED <<gateVars, periodVars, fetchVars, typeVars>>

\* lines 174-180: output_file.write(response.content) completes, the file is
\* closed; time.sleep(0.1).
master_write ==
    /\ op = "download_master_files" /\ mpc = "write"
    /\ idxFile' = [idxFile EXCEPT ![k] = "complete"]
    /\ idxLines' = [idxLines EXCEPT ![k] = NumEntries]
    /\ mpc' = "top"
    /\ k' = k + 1
    /\ reqs' = 0
    /\ UNCHANGED <<srcDir, csvExists, csvRows, csvWrites, typeDir, files>>
    /\ UNCHANGED <<op, ftype, tasks, exc>>
    /\ UNCHANGED <<runFailed, afterClean, lastClean, valAt>>
    /\ UNCHANGED <<gateVars, periodVars, fetchVars, typeVars>>
    /\ UNCHANGED idxFailed

(***************************************************************************)
(* extract_and_save_csv (lines 219-254)                                    *)
(***************************************************************************)
\* lines 238-253: one row per entry line of master.idx, Downloaded = False
parse_index(p) == FalseRows(idxLines[p])

\* One period of the loop. open(local_file) raises FileNotFoundError when
\* the source directory is there without a master.idx (line 235).
extract_period ==
    /\ op = "extract_and_save_csv" /\ mpc = "top" /\ k <= NumPeriods
    /\ IF ~srcDir[k] \/ csvExists[k]
       THEN /\ k' = k + 1
            /\ UNCHANGED <<op, ftype, mpc, tasks, exc, runVars>>
            /\ UNCHANGED <<csvExists, csvRows, csvWrites>>
       ELSE IF idxFile[k] = "absent"
       THEN /\ Raise("FileNotFoundError")
            /\ UNCHANGED <<valAt, csvExists, csvRows, csvWrites>>
       ELSE /\ csvExists' = [csvExists EXCEPT ![k] = TRUE]
            /\ csvRows' = [csvRows EXCEPT ![k] = parse_index(k)]
            /\ csvWrites' = [csvWrites EXCEPT ![k] = @ + 1]
            /\ k' = k + 1
            /\ UNCHANGED <<op, ftype, mpc, tasks, exc, runVars>>
    /\ UNCHANGED <<srcDir, idxFile, idxLines, typeDir, files>>
    /\ UNCHANGED <<gateVars, periodVars, fetchVars, typeVars>>
    /\ UNCHANGED idxFailed

(***************************************************************************)
(* download_filings (lines 257-289) and download_sec_file (lines 292-308)  *)
(***************************************************************************)
max_workers == 5

\* df[(df['Form Type'] == filing_type.value) & (df['Downloaded'] == False)]
\* (line 271)
sec_filing(p, t) ==
    LET keep(i) == FormType(p, i) = t /\ csvRows[p][i] = FALSE
    IN  SelectSeq([i \in 1..Len(csvRows[p]) |-> i], keep)

\* Variant: an existing filing-type directory does not skip the period.
never_skip(p, t) == FALSE

\* path.exists() of the period's filing-type directory (lines 274-279)
skip_period(p, t) == typeDir[p][t]

\* executor.submit(self.download_sec_file, file, path) for each Filename
\* (lines 283-286)
submit(rows) ==
    [j \in 1..Len(rows) |->
        [row |-> rows[j], pc |-> "queued", attempts |-> 0, resp |-> "none"]]

\* One period of the loop, up to wait(futures). pd.read_csv raises
\* FileNotFoundError when the source directory holds no master.csv.
download_filings_period ==
    /\ op = "download_filings" /\ mpc = "top" /\ k <= NumPeriods
    /\ IF ~srcDir[k]
       THEN /\ k' = k + 1
            /\ UNCHANGED <<op, ftype, mpc, tasks, exc, runVars, typeDir>>
       ELSE IF ~csvExists[k]
       THEN /\ Raise("FileNotFoundError")
            /\ UNCHANGED <<valAt, typeDir>>
       ELSE IF skip_period(k, ftype)
       THEN /\ k' = k + 1
            /\ UNCHANGED <<op, ftype, mpc, tasks, exc, runVars, typeDir>>
       ELSE /\ typeDir' = [typeDir EXCEPT ![k][ftype] = TRUE]
            /\ tasks' = submit(sec_filing(k, ftype))
            /\ mpc' = "wait"
            /\ UNCHANGED <<op, ftype, k, exc, runVars>>
    /\ UNCHANGED <<srcDir, idxFile, idxLines, csvExists, csvRows, csvWrites, files>>
    /\ UNCHANGED <<gateVars, periodVars, fetchVars, typeVars>>
    /\ UNCHANGED idxFailed

TaskIds == 1..Len(tasks)
Running == { j \in TaskIds : tasks[j].pc \notin {"queued", "done"} }

\* A pool thread takes the oldest queued work item; the pool has at most
\* max_workers threads (line 282).
task_start(j) ==
    /\ op = "download_filings" /\ mpc = "wait"
    /\ tasks[j].pc = "queued"
    /\ \A i \in 1..(j - 1) : tasks[i].pc # "queued"
    /\ Cardinality(Running) < max_workers
    /\ tasks' = [tasks EXCEPT ![j].pc = "acquire"]
    /\ UNCHANGED <<op, ftype, k, mpc, exc, runVars, diskVars>>
    /\ UNCHANGED <<gateVars, periodVars, fetchVars, typeVars>>
    /\ UNCHANGED idxFailed

\* next(self.rate_limiter) (line 293): the thread enters the gate ...
task_acquire(j) ==
    /\ op = "download_filings" /\ mpc = "wait"
    /\ tasks[j].pc = "acquire"
    /\ LockFree
    /\ lock' = j
    /\ tasks' = [tasks EXCEPT ![j].pc = "gate"]
    /\ UNCHANGED <<op, ftype, k, mpc, exc, runVars, diskVars>>
    /\ UNCHANGED <<gateButLock, periodVars, fetchVars, typeVars>>
    /\ UNCHANGED idxFailed

\* ... and leaves it.
task_release(j) ==
    /\ op = "download_filings" /\ mpc = "wait"
    /\ tasks[j].pc = "gate"
    /\ lock = j
    /\ lock' = NoWorker
    /\ tasks' = [tasks EXCEPT ![j].pc = "request"]
    /\ UNCHANGED <<op, ftype, k, mpc, exc, runVars, diskVars>>
    /\ UNCHANGED <<gateButLock, periodVars, fetchVars, typeVars>>
    /\ UNCHANGED idxFailed

\* Variant: the request is issued inside the with block of __next__.
request_in_gate(j) == tasks[j].pc \in {"gate", "request"}

\* download_sec_file comes to requests.get once next() has returned
\* (lines 293-299).
may_request(j) == tasks[j].pc = "request"

\* requests.get(file_url, headers=self.headers) is issued (line 299).
task_request(j) ==
    /\ op = "download_filings" /\ mpc = "wait"
    /\ may_request(j)
    /\ tasks' = [tasks EXCEPT ![j].pc = "inflight", ![j].attempts = @ + 1]
    /\ reqs' = reqs + 1
    /\ UNCHANGED <<op, ftype, k, mpc, exc, diskVars>>
    /\ UNCHANGED <<runFailed, afterClean, lastClean, valAt>>
    /\ UNCHANGED <<gateVars, periodVars, fetchVars, typeVars>>
    /\ UNCHANGED idxFailed

\* Variant: a failed request is issued again.
retry_on_failure(resp) == IF resp = "200" THEN "write" ELSE "request"

\* lines 301-308: 200 goes on to write the file; any other status and any
\* exception is printed, and download_sec_file returns.
after_response(resp) == IF resp = "200" THEN "write" ELSE "done"

\* Variant: a failed download cancels the work items still queued.
cancel_on_failure(j, resp) ==
    [i \in TaskIds |->
        IF i = j
        THEN [tasks[i] EXCEPT !.pc = after_response(resp), !.resp = resp]
        ELSE IF resp # "200" /\ tasks[i].pc = "queued"
        THEN [tasks[i] EXCEPT !.pc = "done"]
        ELSE tasks[i]]

\* The futures once task j's request has ended with resp: the failure is
\* printed inside download_sec_file (lines 304-308) and touches no other
\* future.
record_response(j, resp) ==
    [tasks EXCEPT ![j].pc = after_response(resp), ![j].resp = resp]

\* The request ends. On 200, open(local_file, 'wb') creates the file, or
\* truncates it (line 302).
task_response(j) ==
    /\ op = "download_filings" /\ mpc = "wait"
    /\ tasks[j].pc = "inflight"
    /\ \E resp \in Responses :
        /\ tasks' = record_response(j, resp)
        /\ IF resp = "200"
           THEN /\ files' = [files EXCEPT
                       ![k][ftype][local_file(k, tasks[j].row)] = "partial"]
                /\ UNCHANGED runFailed
           ELSE /\ runFailed' = TRUE
                /\ UNCHANGED files
    /\ UNCHANGED <<op, ftype, k, mpc, exc>>
    /\ UNCHANGED <<srcDir, idxFile, idxLines, csvExists, csvRows, csvWrites, typeDir>>
    /\ UNCHANGED <<reqs, afterClean, lastClean, valAt>>
    /\ UNCHANGED <<gateVars, periodVars, fetchVars, typeVars>>
    /\ UNCHANGED idxFailed

\* file.write(response.content) completes and the file is closed (line 303).
task_write(j) ==
    /\ op = "download_filings" /\ mpc = "wait"
    /\ tasks[j].pc = "write"
    /\ files' = [files EXCEPT
           ![k][ftype][local_file(k, tasks[j].row)] = "complete"]
    /\ tasks' = [tasks EXCEPT ![j].pc = "done"]
    /\ UNCHANGED <<op, ftype, k, mpc, exc, runVars>>
    /\ UNCHANGED <<srcDir, idxFile, idxLines, csvExists, csvRows, csvWrites, typeDir>>
    /\ UNCHANGED <<gateVars, periodVars, fetchVars, typeVars>>
    /\ UNCHANGED idxFailed

\* Variant: wait(futures, return_when=FIRST_COMPLETED) on a pool that is
\* not joined.
first_completed == \E j \in TaskIds : tasks[j].pc = "done"

\* wait(futures) returns when every future is done (line 289), and leaving
\* the with block joins the pool's threads (line 282).
futures_done == \A j \in TaskIds : tasks[j].pc = "done"

\* wait(futures) returns and the executor shuts down (lines 282-289):
\* download_filings has finished the period.
wait_futures ==
    /\ op = "download_filings" /\ mpc = "wait"
    /\ futures_done
    /\ mpc' = "waited"
    /\ UNCHANGED <<op, ftype, k, tasks, exc, runVars, diskVars>>
    /\ UNCHANGED <<gateVars, periodVars, fetchVars, typeVars>>
    /\ UNCHANGED idxFailed

\* The loop goes on to the next period (line 264).
next_period ==
    /\ op = "download_filings" /\ mpc = "waited"
    /\ tasks' = << >>
    /\ reqs' = 0
    /\ mpc' = "top"
    /\ k' = k + 1
    /\ UNCHANGED <<op, ftype, exc, diskVars>>
    /\ UNCHANGED <<runFailed, afterClean, lastClean, valAt>>
    /\ UNCHANGED <<gateVars, periodVars, fetchVars, typeVars>>
    /\ UNCHANGED idxFailed

(***************************************************************************)
(* validated_downloaded_filings (lines 311-339)                            *)
(***************************************************************************)
\* One period of the loop. Where both directories are there, the loop over
\* the rows reads the unbound name rowp (line 327) at its first row, and
\* with no rows df.to_csv reads the unbound name output_file (line 339):
\* NameError either way, before any flag is changed or anything is written.
\* Variant: every row is flagged by whether the filing-type directory
\* exists, and the manifest is written.
flag_by_directory(p, t) == [i \in 1..Len(csvRows[p]) |-> typeDir[p][t]]

\* The Downloaded column on disk when the method ends at period p: the
\* NameError comes before df.to_csv (line 339), and df, with whatever
\* df.at has set in it, is dropped.
rows_after_validation(p, t) == csvRows[p]

validate_period ==
    /\ op = "validated_downloaded_filings" /\ mpc = "top" /\ k <= NumPeriods
    /\ IF ~srcDir[k]
       THEN /\ k' = k + 1
            /\ UNCHANGED <<op, ftype, mpc, tasks, exc, runVars, csvRows>>
       ELSE IF ~csvExists[k]
       THEN /\ Raise("FileNotFoundError")
            /\ UNCHANGED <<valAt, csvRows>>
       ELSE IF ~typeDir[k][ftype]
       THEN /\ k' = k + 1
            /\ UNCHANGED <<op, ftype, mpc, tasks, exc, runVars, csvRows>>
       ELSE /\ Raise("NameError")
            /\ valAt' = k
            /\ csvRows' = [csvRows EXCEPT ![k] = rows_after_validation(k, ftype)]
    /\ UNCHANGED <<srcDir, idxFile, idxLines, csvExists, csvWrites, typeDir, files>>
    /\ UNCHANGED <<gateVars, periodVars, fetchVars, typeVars>>
    /\ UNCHANGED idxFailed

(***************************************************************************)
(* SEC_downloader._download (download.py lines 22-45)                      *)
(***************************************************************************)
\* One pass of for i in range(2). The call's argument headers=HEADER reads
\* a name bound nowhere in the module (the header is kept in self.HEADER,
\* line 10): NameError is raised before requests.get is called, its message
\* holds no '404', so the handler sleeps and the loop goes on (lines 42-45).
\* No request is ever issued; after two passes _download returns None.
download_attempt ==
    /\ op = "_download" /\ mpc = "top" /\ k < 2
    /\ k' = k + 1
    /\ UNCHANGED <<op, ftype, mpc, tasks, exc, runVars, diskVars>>
    /\ UNCHANGED <<gateVars, periodVars, fetchVars, typeVars>>
    /\ UNCHANGED idxFailed

(***************************************************************************)
(* A run's outbound requests on the clock: download_master_files on the    *)
(* main thread (lines 150-183), then download_sec_file on the pool threads *)
(* of download_filings (lines 282-308), over a fresh data directory        *)
(***************************************************************************)
\* A thread is in a time.sleep that the clock has not yet ended.
Waiting ==
    \/ rpc = "sleep" /\ now < rwake
    \/ \E w \in Workers : gpc[w] = "sleeping" /\ now < gwake[w]

\* The clock advances between any two steps of any thread; past MaxTime,
\* as far as the sleeping threads need.
Elapse ==
    /\ now < MaxTime \/ Waiting
    /\ now' = now + 1
    /\ UNCHANGED <<interval, next_yield, lock, gpc, gt, gwake, grants, rets>>
    /\ UNCHANGED <<rk, rpc, rwake, wstage, nfetch, starts>>
    /\ UNCHANGED <<periodVars, pipeVars, typeVars>>

\* time.sleep(0.1) (line 180): the 0.1 s that is RateLimiter's interval
\* (line 117).
rate_limit_sleep == interval

\* requests.get(src, headers=self.headers) is issued for the period's
\* master.idx (line 171); no call of the rate limiter comes before it.
index_request ==
    /\ rpc = "top" /\ rk <= NumPeriods
    /\ starts' = LastTwo(starts, now)
    /\ rpc' = "inflight"
    /\ UNCHANGED <<rk, rwake, wstage, nfetch>>
    /\ UNCHANGED <<gateVars, periodVars, pipeVars, typeVars>>

\* The request ends. After a status code, 200 or another, comes
\* time.sleep(0.1) (lines 173-180); an exception leaves the try block for
\* its handler, which logs, and the loop goes on at once (lines 182-183).
index_response ==
    /\ rpc = "inflight"
    /\ \E resp \in Responses :
        IF resp = "error"
        THEN /\ rpc' = "top"
             /\ rk' = rk + 1
             /\ UNCHANGED rwake
        ELSE /\ rpc' = "sleep"
             /\ rwake' = now + rate_limit_sleep
             /\ UNCHANGED rk
    /\ UNCHANGED <<wstage, nfetch, starts>>
    /\ UNCHANGED <<gateVars, periodVars, pipeVars, typeVars>>

\* time.sleep(0.1) returns (line 180); the loop goes on.
index_wake ==
    /\ rpc = "sleep"
    /\ now >= rwake
    /\ rpc' = "top"
    /\ rk' = rk + 1
    /\ UNCHANGED <<rwake, wstage, nfetch, starts>>
    /\ UNCHANGED <<gateVars, periodVars, pipeVars, typeVars>>

\* download_master_files has returned and download_filings runs its pool.
PoolRuns == rk = NumPeriods + 1 /\ rpc = "top"

\* An idle pool thread takes the next of the MaxFetches work items
\* submitted (lines 283-286): download_sec_file, which calls
\* next(self.rate_limiter) (line 293).
fetch_call(w) ==
    /\ PoolRuns
    /\ wstage[w] = "none" /\ nfetch < MaxFetches
    /\ gpc[w] = "idle"
    /\ gpc' = [gpc EXCEPT ![w] = "acquire"]
    /\ wstage' = [wstage EXCEPT ![w] = "gate"]
    /\ nfetch' = nfetch + 1
    /\ UNCHANGED <<now, interval, next_yield, lock, gt, gwake, grants, rets>>
    /\ UNCHANGED <<rk, rpc, rwake, starts>>
    /\ UNCHANGED <<periodVars, pipeVars, typeVars>>

\* next() has returned; requests.get(file_url, headers=self.headers) is
\* issued (line 299). What follows in download_sec_file (the response, the
\* write, the return: lines 301-308) reads neither the clock nor the rate
\* limiter, and is over when the thread takes its next work item.
fetch_request(w) ==
    /\ wstage[w] = "gate" /\ gpc[w] = "idle"
    /\ starts' = LastTwo(starts, now)
    /\ wstage' = [wstage EXCEPT ![w] = "none"]
    /\ UNCHANGED <<rk, rpc, rwake, nfetch>>
    /\ UNCHANGED <<gateVars, periodVars, pipeVars, typeVars>>

\* The same step where the times of the requests are not recorded: next()
\* has returned, and the rest of download_sec_file runs (lines 295-308).
fetch_rest(w) ==
    /\ wstage[w] = "gate" /\ gpc[w] = "idle"
    /\ wstage' = [wstage EXCEPT ![w] = "none"]
    /\ UNCHANGED <<rk, rpc, rwake, nfetch, starts>>
    /\ UNCHANGED <<gateVars, periodVars, pipeVars, typeVars>>

NextFetch ==
    \/ Elapse
    \/ index_request
    \/ index_response
    \/ index_wake
    \/ \E w \in Workers : fetch_call(w)
    \/ \E w \in Workers : Acquire(w)
    \/ \E w \in Workers : ReadClock(w)
    \/ \E w \in Workers : Sleep(w)
    \/ \E w \in Workers : Wake(w)
    \/ \E w \in Workers : SetNextYield(w)
    \/ \E w \in Workers : Release(w)
    \/ \E w \in Workers : fetch_request(w)

\* The run's requests at rest, for the specifications that do not time
\* them.
FetchIdle ==
    /\ rk = 1
    /\ rpc = "top"
    /\ rwake = 0
    /\ wstage = [w \in Workers |-> "none"]
    /\ nfetch = 0
    /\ starts = << >>

\* main() calls download_master_files when the configuration's
\* download_master is set (lines 375-376), and then download_filings.
InitFetch ==
    /\ rk \in {1, NumPeriods + 1}
    /\ rpc = "top"
    /\ rwake = 0
    /\ wstage = [w \in Workers |-> "none"]
    /\ nfetch = 0
    /\ starts = << >>

\* No filing type has been read.
TypeIdle ==
    /\ filing_type = << >>
    /\ filing_type_enum = "None"
    /\ tpc = "init"

Next ==
    \/ StartOp
    \/ Return
    \/ Crash
    \/ master_top
    \/ master_request
    \/ master_response
    \/ master_write
    \/ extract_period
    \/ download_filings_period
    \/ \E j \in TaskIds : task_start(j)
    \/ \E j \in TaskIds : task_acquire(j)
    \/ \E j \in TaskIds : task_release(j)
    \/ \E j \in TaskIds : task_request(j)
    \/ \E j \in TaskIds : task_response(j)
    \/ \E j \in TaskIds : task_write(j)
    \/ wait_futures
    \/ next_period
    \/ validate_period
    \/ download_attempt

Init == InitPipe /\ GateIdle /\ PeriodsIdle /\ FetchIdle /\ TypeIdle

Spec == Init /\ [][Next]_vars

\* The program where the process is not killed: every step but Crash.
NextRun ==
    \/ StartOp
    \/ Return
    \/ master_top
    \/ master_request
    \/ master_response
    \/ master_write
    \/ extract_period
    \/ download_filings_period
    \/ \E j \in TaskIds : task_start(j)
    \/ \E j \in TaskIds : task_acquire(j)
    \/ \E j \in TaskIds : task_release(j)
    \/ \E j \in TaskIds : task_request(j)
    \/ \E j \in TaskIds : task_response(j)
    \/ \E j \in TaskIds : task_write(j)
    \/ wait_futures
    \/ next_period
    \/ validate_period
    \/ download_attempt

\* A pool thread that can take its next step takes it, and a request that
\* was issued comes to an end, with a status code or an exception.
FairRun ==
    \A j \in Rows :
        /\ WF_vars(j \in TaskIds /\ task_start(j))
        /\ WF_vars(j \in TaskIds /\ task_acquire(j))
        /\ WF_vars(j \in TaskIds /\ task_release(j))
        /\ WF_vars(j \in TaskIds /\ task_request(j))
        /\ WF_vars(j \in TaskIds /\ task_response(j))
        /\ WF_vars(j \in TaskIds /\ task_write(j))

SpecRun == Init /\ [][NextRun]_vars /\ FairRun

PipeIdle == InitPipe /\ ftype = "10-K"

InitOfGate == InitGate /\ PeriodsIdle /\ PipeIdle /\ FetchIdle /\ TypeIdle

SpecGate == InitOfGate /\ [][NextGate]_vars

InitOfPeriods == InitPeriods /\ GateIdle /\ PipeIdle /\ FetchIdle /\ TypeIdle

NextPeriods == Construct

SpecPeriods == InitOfPeriods /\ [][NextPeriods]_vars

InitOfTypes == InitTypes /\ GateIdle /\ PeriodsIdle /\ PipeIdle /\ FetchIdle

SpecTypes == InitOfTypes /\ [][NextTypes]_vars

InitOfFetch == InitGate /\ InitFetch /\ PeriodsIdle /\ PipeIdle /\ TypeIdle

SpecFetch == InitOfFetch /\ [][NextFetch]_vars

\* The pool of a run whose configuration has download_master off.
InitOfPool == InitOfFetch /\ rk = NumPeriods + 1

NextPool ==
    \/ Elapse
    \/ \E w \in Workers : fetch_call(w)
    \/ \E w \in Workers : Acquire(w)
    \/ \E w \in Workers : ReadClock(w)
    \/ \E w \in Workers : Sleep(w)
    \/ \E w \in Workers : Wake(w)
    \/ \E w \in Workers : SetNextYield(w)
    \/ \E w \in Workers : Release(w)
    \/ \E w \in Workers : fetch_rest(w)

\* The clock goes on, and a thread that can take its next step in
\* __next__ takes it; nothing is asked of the network or of the pool.
FairPool ==
    /\ WF_vars(Elapse)
    /\ \A w \in Workers :
        /\ WF_vars(Acquire(w))
        /\ WF_vars(ReadClock(w))
        /\ WF_vars(Sleep(w))
        /\ WF_vars(Wake(w))
        /\ WF_vars(SetNextYield(w))
        /\ WF_vars(Release(w))

SpecPool == InitOfPool /\ [][NextPool]_vars /\ FairPool

(***************************************************************************)
(* Claims                                                                  *)
(***************************************************************************)

C2_RerunIssuesNoRequest ==
    (op = "download_filings" /\ afterClean) =>
        /\ reqs = 0
        /\ \A j \in TaskIds : tasks[j].attempts = 0

\* The second run has gone through every period, each of which holds a full
\* manifest and the complete file of every entry of the type.
C2_Witness ==
    /\ op = "download_filings" /\ afterClean
    /\ k = NumPeriods + 1
    /\ \A p \in Periods :
        /\ csvExists[p] /\ Len(csvRows[p]) = NumEntries
        /\ \A i \in Rows : FormType(p, i) = ftype =>
               files[p][ftype][local_file(p, i)] = "complete"

\* Every entry of the type in the period's manifest has its complete file.
PeriodComplete(p, t) ==
    \A i \in 1..Len(csvRows[p]) :
        FormType(p, i) = t => files[p][t][local_file(p, i)] = "complete"

\* C3: download_filings leaves a period that has a manifest without
\* dispatching its entries only when the period's output location is
\* complete; a location a prior run created but did not complete is
\* dispatched again.
C3_SkipsOnlyCompletePeriods ==
    [][(/\ op = "download_filings" /\ mpc = "top" /\ k <= NumPeriods
        /\ srcDir[k] /\ csvExists[k]
        /\ op' = "download_filings" /\ k' = k + 1)
       => PeriodComplete(k, ftype)]_vars

\* C4: when download_filings has finished a period, every entry whose
\* dispatched download got 200 and was written has Downloaded true in the
\* period's persisted manifest.
C4_SucceededMarkedDownloaded ==
    (op = "download_filings" /\ mpc = "waited") =>
        \A j \in TaskIds :
            tasks[j].resp = "200" => csvRows[k][tasks[j].row] = TRUE

\* C5: a fetch that got 404 has issued exactly one request and has ended,
\* failed; it is not retried.
C5_NotFoundNeverRetried ==
    \A j \in TaskIds :
        tasks[j].resp = "404" => tasks[j].attempts = 1 /\ tasks[j].pc = "done"

\* The period is finished and one of its downloads got 404.
C5_Witness ==
    /\ op = "download_filings" /\ mpc = "waited"
    /\ \E j \in TaskIds : tasks[j].resp = "404" /\ tasks[j].attempts = 1

\* C6: a fetch that ended on a transient failure (429 or 5xx, or a network
\* error) has issued exactly 1 + 2 requests.
C6_TransientRetriedToBudget ==
    \A j \in TaskIds :
        (tasks[j].pc = "done" /\ tasks[j].resp \in {"503", "error"})
            => tasks[j].attempts = 1 + 2

\* C7: in every reachable state, a file present at a final destination path
\* (a master.idx, a filing) holds the complete response body.
C7_NoPartialFileAtFinalPath ==
    \A p \in Periods :
        /\ idxFile[p] # "partial"
        /\ \A t \in Types, a \in Rows : files[p][t][a] # "partial"

\* The quarters [s, e] overlaps, fully or partially, in chronological order.
QuarterIndex(dt) == dt[1] * 4 + Quarter(dt) - 1
OverlappedQuarters(s, e) ==
    [i \in 1..(QuarterIndex(e) - QuarterIndex(s) + 1) |->
        <<(QuarterIndex(s) + i - 1) \div 4, ((QuarterIndex(s) + i - 1) % 4) + 1>>]

\* C8: for every valid range, generate_filing_periods returns exactly the
\* (year, quarter) pairs of the quarters the range overlaps, in
\* chronological order, the quarters holding start and end included.
C8_PeriodsAreOverlappedQuarters ==
    ppc = "done" => filing_periods = OverlappedQuarters(start_date, end_date)

\* C9: once a period's master.csv is persisted, no step issues a request for
\* the period's master.idx, writes the master.csv or changes a row of it.
C9_IngestionIdempotent ==
    [][\A p \in Periods : csvExists[p] =>
          /\ csvExists'[p]
          /\ csvRows'[p] = csvRows[p]
          /\ csvWrites'[p] = csvWrites[p]
          /\ ~(op = "download_master_files" /\ k = p /\ reqs' > reqs)]_vars

\* download_master_files, run again with every period's manifest persisted,
\* has gone through every period without a request.
C9_Witness ==
    /\ op = "download_master_files"
    /\ k = NumPeriods + 1
    /\ reqs = 0
    /\ \A p \in Periods : csvExists[p] /\ csvWrites[p] = 1

\* C10: after validated_downloaded_filings(type) has been at a period, every
\* manifest entry of the type has Downloaded true exactly when the file that
\* download_sec_file writes for it is on disk.
C10_ValidationReconciles ==
    valAt # 0 =>
        \A i \in 1..Len(csvRows[valAt]) :
            FormType(valAt, i) = ftype =>
                (csvRows[valAt][i] <=>
                    files[valAt][ftype][local_file(valAt, i)] # "absent")

\* C11: under fair scheduling, every pool thread that calls
\* RateLimiter.__next__ returns from it: no caller is starved and the gate
\* does not deadlock.
C11_EveryCallerReturns ==
    \A w \in Workers : (gpc[w] = "acquire") ~> (gpc[w] = "idle")

\* A caller is blocked on the lock while its holder sleeps in the gate, and
\* the last work item has been taken.
C11_Witness ==
    /\ nfetch = MaxFetches
    /\ \E w, v \in Workers :
        /\ gpc[w] = "acquire"
        /\ gpc[v] = "sleeping" /\ lock = v /\ now < gwake[v]

\* C12: a failed download (a status other than 200, or an exception) does
\* not abort the run: the step that fails leaves the method, its period
\* and every other future as they are, and when the period is finished
\* every entry dispatched for it has had its request issued.
C12_FailureDoesNotAbort ==
    /\ []((op = "download_filings" /\ mpc = "waited") =>
            \A j \in TaskIds : tasks[j].attempts = 1)
    /\ [][\A j \in TaskIds :
            (/\ tasks[j].pc = "inflight"
             /\ j \in 1..Len(tasks')
             /\ tasks'[j].resp \in Responses \ {"200"})
            => /\ op' = op /\ k' = k /\ mpc' = mpc /\ exc' = exc
               /\ Len(tasks') = Len(tasks)
               /\ \A i \in TaskIds \ {j} : tasks'[i] = tasks[i]]_vars

\* Every download of the first period failed, and the second period is
\* finished with one download failed and another written.
C12_Witness ==
    /\ op = "download_filings" /\ mpc = "waited" /\ k = 2
    /\ typeDir[1][ftype]
    /\ \A a \in Rows : files[1][ftype][a] = "absent"
    /\ \E i, j \in TaskIds :
        /\ tasks[i].resp \in Responses \ {"200"}
        /\ tasks[j].resp = "200" /\ tasks[j].pc = "done"

C14_OneFilePerEntry ==
    (/\ op = "download_filings" /\ mpc = "waited"
     /\ \A j \in TaskIds : tasks[j].resp = "200")
    => Cardinality({a \in Rows : files[k][ftype][a] # "absent"}) = Len(tasks)

\* A filing_type that is a decimal numeral, leading zeros or not, of a key
\* 1..11.
ReadsAsKey(str) ==
    /\ Len(str) > 0
    /\ \A i \in 1..Len(str) : str[i] \in Digits
    /\ int(str) \in 1..Len(IntMapping)

\* C15: main() resolves each numeral of a key 1..11 to the member from_int
\* has under the key, each value of a member to that member, and rejects
\* every other filing_type with an error. ('3', '4' and '5' are numerals of
\* keys and values of members at once: they are held to the first reading
\* only.)
C15_ResolutionRespectsTable ==
    tpc \in {"ok", "ValueError"} =>
        IF ReadsAsKey(filing_type)
        THEN tpc = "ok" /\ filing_type_enum = from_int(int(filing_type))
        ELSE IF filing_type \in StringCodes
        THEN tpc = "ok" /\ Value(filing_type_enum) = filing_type
        ELSE tpc = "ValueError"

\* C16: every outbound request of a run, for a master.idx or for a filing,
\* is issued at least interval after the request before it was issued.
C16_RequestsSpaced ==
    Len(starts) = 2 => starts[2] - starts[1] >= interval

\* C17: a failed master.idx request for a period does not halt the run:
\* neither extract_and_save_csv nor download_filings, at that period, ends
\* in an exception.
C17_FailedIndexFetchDoesNotHalt ==
    [][(/\ op \in {"extract_and_save_csv", "download_filings"}
        /\ k \in idxFailed)
       => exc' # "FileNotFoundError"]_vars

\* C18: no pool thread holds the rate limiter's lock when it issues its
\* request or while the request is in flight, and at most one thread is
\* inside the gate, the holder of the lock.
C18_NoLockAcrossRequest ==
    /\ \A j \in TaskIds :
        /\ tasks[j].pc \in {"request", "inflight"} => lock # j
        /\ tasks[j].pc = "gate" => lock = j
    /\ Cardinality({j \in TaskIds : tasks[j].pc = "gate"}) <= 1

\* The requests of two pool threads are in flight at the same time.
C18_Witness ==
    /\ lock = NoWorker
    /\ \E i, j \in TaskIds :
        i # j /\ tasks[i].pc = "inflight" /\ tasks[j].pc = "inflight"

\* C19: no step of validated_downloaded_filings(type) changes the
\* Downloaded flag of a manifest entry of another form type, nor the number
\* or order of a manifest's entries.
C19_ValidationFrame ==
    [][op = "validated_downloaded_filings" =>
        \A p \in Periods :
            /\ Len(csvRows'[p]) = Len(csvRows[p])
            /\ \A i \in 1..Len(csvRows[p]) :
                FormType(p, i) # ftype => csvRows'[p][i] = csvRows[p][i]]_vars

\* Validation has been at a period whose manifest holds entries of the type
\* and of another type, with a file of the type on disk.
C19_Witness ==
    /\ valAt # 0
    /\ \E i, j \in 1..Len(csvRows[valAt]) :
        /\ FormType(valAt, i) = ftype
        /\ files[valAt][ftype][local_file(valAt, i)] = "complete"
        /\ FormType(valAt, j) # ftype

====
